---------------------------- MODULE Spec2Model ----------------------------
(***************************************************************************)
(* The persistent memory of the AutoMinds voice service (src/app.py): the  *)
(* SQLite tables messages / memories / summaries behind one process-wide   *)
(* lock, the keyword fact extractor, the post-call summarizer, the JSON    *)
(* export / import and the Google Drive backup and restore.                *)
(*                                                                         *)
(* Text is a sequence of one-character strings, so that lower(), strip()   *)
(* and the substring test "kw in speech" are computed, not assumed.        *)
(***************************************************************************)
EXTENDS Integers, Sequences, FiniteSets, TLC

VARIABLES
    messages,   \* table messages : set of rows [id, phone, role, content, timestamp]
    memories,   \* table memories : set of rows [id, phone, fact, category, timestamp]
    summaries,  \* table summaries: set of rows [id, phone, summary, message_count, timestamp]
    drive,      \* the Drive files named DRIVE_MEMORY_FILE, in listing order: <<snapshot, ...>>
    lock,       \* _db_lock : the tasks inside a "with _db_lock:" block (none: it is free)
    pc,         \* pc[t]  : where task t stands in its code
    loc,        \* loc[t] : the local variables of task t
    now,        \* the value datetime.now() returns
    requests,   \* number of HTTP requests accepted so far
    log,        \* history: log[p] = the message rows committed for phone p, in commit order
    call,       \* history: the last call made in the function-level specifications
    exported    \* history: the tables as they were when the exported snapshot was taken

vars == <<messages, memories, summaries, drive, lock, pc, loc, now, requests, log, call,
          exported>>

---------------------------------------------------------------------------
(* Bounds of the model *)

\* HTTP requests accepted in one run of the process
MaxRequests == 1

\* calls made in one behaviour of SpecApi
MaxCalls == 4

\* calls made in one behaviour of SpecExtract
MaxExtractCalls == 2

\* largest LIMIT tried against get_conversation_history
MaxLimit == 3

Min(a, b) == IF a <= b THEN a ELSE b

SetMax(S) == CHOOSE x \in S : \A y \in S : y <= x

SetMin(S) == CHOOSE x \in S : \A y \in S : x <= y

---------------------------------------------------------------------------
(* Text: str.lower, str.strip, "kw in s" *)

UpperCase ==
    <<"A","B","C","D","E","F","G","H","I","J","K","L","M",
      "N","O","P","Q","R","S","T","U","V","W","X","Y","Z">>

LowerCase ==
    <<"a","b","c","d","e","f","g","h","i","j","k","l","m",
      "n","o","p","q","r","s","t","u","v","w","x","y","z">>

lower_char(c) ==
    IF \E i \in 1..26 : UpperCase[i] = c
    THEN LowerCase[CHOOSE i \in 1..26 : UpperCase[i] = c]
    ELSE c

\* s.lower()
lower(s) == [i \in 1..Len(s) |-> lower_char(s[i])]

Whitespace == {" ", "\t", "\n", "\r"}

\* s.strip()
strip(s) ==
    LET keep == {i \in 1..Len(s) : s[i] \notin Whitespace}
    IN  IF keep = {} THEN <<>> ELSE SubSeq(s, SetMin(keep), SetMax(keep))

\* kw in s
contains(kw, s) ==
    \E i \in 1..(Len(s) - Len(kw) + 1) : SubSeq(s, i, i + Len(kw) - 1) = kw

\* a + b on strings
concat(a, b) == a \o b

\* trigger phrases of category "preference"
kw_preference ==
    <<
       <<"i"," ","l","i","k","e">>,
       <<"i"," ","l","o","v","e">>,
       <<"i"," ","p","r","e","f","e","r">>,
       <<"i"," ","h","a","t","e">>,
       <<"i"," ","e","n","j","o","y">>,
       <<"m","y"," ","f","a","v","o","r","i","t","e">>
    >>

\* trigger phrases of category "personal"
kw_personal ==
    <<
       <<"m","y"," ","n","a","m","e"," ","i","s">>,
       <<"i"," ","l","i","v","e"," ","i","n">>,
       <<"i"," ","w","o","r","k"," ","a","t">>,
       <<"m","y"," ","j","o","b"," ","i","s">>,
       <<"i"," ","a","m"," ","a">>,
       <<"i","'","m"," ","a">>
    >>

\* trigger phrases of category "goal"
kw_goal ==
    <<
       <<"i"," ","w","a","n","t"," ","t","o">>,
       <<"i"," ","n","e","e","d"," ","t","o">>,
       <<"m","y"," ","g","o","a","l"," ","i","s">>,
       <<"i"," ","p","l","a","n"," ","t","o">>,
       <<"i","'","m"," ","t","r","y","i","n","g"," ","t","o">>,
       <<"i"," ","a","i","m"," ","t","o">>
    >>

\* trigger phrases of category "business"
kw_business ==
    <<
       <<"m","y"," ","c","o","m","p","a","n","y">>,
       <<"m","y"," ","b","u","s","i","n","e","s","s">>,
       <<"m","y"," ","s","t","a","r","t","u","p">>,
       <<"m","y"," ","p","r","o","d","u","c","t">>,
       <<"m","y"," ","c","l","i","e","n","t">>,
       <<"r","e","v","e","n","u","e">>,
       <<"p","r","o","f","i","t">>,
       <<"g","r","o","w","t","h">>
    >>

\* trigger phrases of category "reminder"
kw_reminder ==
    <<
       <<"r","e","m","i","n","d"," ","m","e">>,
       <<"d","o","n","'","t"," ","f","o","r","g","e","t">>,
       <<"r","e","m","e","m","b","e","r"," ","t","h","a","t">>,
       <<"k","e","e","p"," ","i","n"," ","m","i","n","d">>
    >>

\* the phrases that end the conversation
goodbye_words ==
    <<
       <<"g","o","o","d","b","y","e">>,
       <<"b","y","e">>,
       <<"h","a","n","g"," ","u","p">>,
       <<"e","n","d"," ","c","a","l","l">>,
       <<"t","h","a","t","'","s"," ","a","l","l">>
    >>

\* "I love hiking on weekends"
U_hiking ==
    <<"I"," ","l","o","v","e"," ","h","i","k","i","n","g"," ","o","n"," ","w","e","e","k","e",
      "n","d","s">>

\* "My name is Sam and I like tea"
U_sam ==
    <<"M","y"," ","n","a","m","e"," ","i","s"," ","S","a","m"," ","a","n","d"," ","I"," ","l",
      "i","k","e"," ","t","e","a">>

\* "It is sunny today"
U_sunny ==
    <<"I","t"," ","i","s"," ","s","u","n","n","y"," ","t","o","d","a","y">>

\* "  I LIKE tea "
U_padded ==
    <<" "," ","I"," ","L","I","K","E"," ","t","e","a"," ">>

\* "Remind me about revenue"
U_remind ==
    <<"R","e","m","i","n","d"," ","m","e"," ","a","b","o","u","t"," ","r","e","v","e","n","u",
      "e">>

\* "I like tea, goodbye"
U_bye ==
    <<"I"," ","l","i","k","e"," ","t","e","a",","," ","g","o","o","d","b","y","e">>

\* "ok"
R_ok ==
    <<"o","k">>

\* "I heard you, but I'm having a moment connecting to my brain. Can you try again?"
R_fallback ==
    <<"I"," ","h","e","a","r","d"," ","y","o","u",","," ","b","u","t"," ","I","'","m"," ","h",
      "a","v","i","n","g"," ","a"," ","m","o","m","e","n","t"," ","c","o","n","n","e","c","t",
      "i","n","g"," ","t","o"," ","m","y"," ","b","r","a","i","n","."," ","C","a","n"," ","y",
      "o","u"," ","t","r","y"," ","a","g","a","i","n","?">>

\* "I'm having trouble connecting right now. Can you try asking again?"
R_trouble ==
    <<"I","'","m"," ","h","a","v","i","n","g"," ","t","r","o","u","b","l","e"," ","c","o","n",
      "n","e","c","t","i","n","g"," ","r","i","g","h","t"," ","n","o","w","."," ","C","a","n",
      " ","y","o","u"," ","t","r","y"," ","a","s","k","i","n","g"," ","a","g","a","i","n","?">>

\* "talked"
S_summary ==
    <<"t","a","l","k","e","d">>

\* "likes tea"
F_tea ==
    <<"l","i","k","e","s"," ","t","e","a">>

\* "call Sam"
A_call ==
    <<"c","a","l","l"," ","S","a","m">>

\* "ACTION: "
ACTION_PREFIX ==
    <<"A","C","T","I","O","N",":"," ">>

\* "..."
ELLIPSIS ==
    <<".",".",".">>

---------------------------------------------------------------------------
(* extract_memories_from_message: the ordered table of trigger phrases *)

\* fault: the 'personal' entry listed ahead of the 'preference' entry
fact_patterns_personal_first ==
    << [category |-> "personal",   keywords |-> kw_personal],
       [category |-> "preference", keywords |-> kw_preference],
       [category |-> "goal",       keywords |-> kw_goal],
       [category |-> "business",   keywords |-> kw_business],
       [category |-> "reminder",   keywords |-> kw_reminder] >>

fact_patterns ==
    << [category |-> "preference", keywords |-> kw_preference],
       [category |-> "personal",   keywords |-> kw_personal],
       [category |-> "goal",       keywords |-> kw_goal],
       [category |-> "business",   keywords |-> kw_business],
       [category |-> "reminder",   keywords |-> kw_reminder] >>

\* any(kw in speech_lower for kw in keywords) for entry i of fact_patterns
category_matches(i, speech_lower) ==
    \E k \in 1..Len(fact_patterns[i].keywords) :
        contains(fact_patterns[i].keywords[k], speech_lower)

\* fault: the loops run on after a match, the last matching entry wins
last_match(user_speech) ==
    LET hits == {i \in 1..Len(fact_patterns) : category_matches(i, lower(user_speech))}
    IN  IF hits = {} THEN 0 ELSE SetMax(hits)

\* the entry of fact_patterns at which the nested loops return, 0 if they run out
first_match(user_speech) ==
    LET hits == {i \in 1..Len(fact_patterns) : category_matches(i, lower(user_speech))}
    IN  IF hits = {} THEN 0 ELSE SetMin(hits)

\* any(word in speech.lower() for word in [...goodbye words...])
is_goodbye(speech) ==
    \E k \in 1..Len(goodbye_words) : contains(goodbye_words[k], lower(speech))

---------------------------------------------------------------------------
(* The SQL the functions run, on tables as sets of rows *)

\* INTEGER PRIMARY KEY AUTOINCREMENT: above every id in use.  (SQLite may also
\* skip ids after an ignored insert; only the order of ids is ever read.)
next_id(tbl) == IF tbl = {} THEN 1 ELSE SetMax({r.id : r \in tbl}) + 1

RECURSIVE order_by_id(_)
\* ORDER BY id
order_by_id(rows) ==
    IF rows = {} THEN <<>>
    ELSE LET r == CHOOSE x \in rows : \A y \in rows : x.id <= y.id
         IN  <<r>> \o order_by_id(rows \ {r})

RECURSIVE order_by_id_desc(_)
\* ORDER BY id DESC
order_by_id_desc(rows) ==
    IF rows = {} THEN <<>>
    ELSE LET r == CHOOSE x \in rows : \A y \in rows : x.id >= y.id
         IN  <<r>> \o order_by_id_desc(rows \ {r})

\* LIMIT n (a negative n is no limit in SQLite)
sql_limit(rows, n) == IF n < 0 THEN rows ELSE SubSeq(rows, 1, Min(n, Len(rows)))

\* rows.reverse()
reverse(rows) == [i \in 1..Len(rows) |-> rows[Len(rows) + 1 - i]]

\* INSERT INTO messages (phone, role, content, timestamp)
insert_message(tbl, phone, role, content, timestamp) ==
    tbl \cup {[id |-> next_id(tbl), phone |-> phone, role |-> role,
               content |-> content, timestamp |-> timestamp]}

\* fault: INSERT OR REPLACE in place of INSERT OR IGNORE
insert_or_replace_memory(tbl, phone, fact, category, timestamp) ==
    {r \in tbl : ~(r.phone = phone /\ r.fact = fact)}
        \cup {[id |-> next_id(tbl), phone |-> phone, fact |-> fact,
                category |-> category, timestamp |-> timestamp]}

\* INSERT OR IGNORE INTO memories (phone, fact, category, timestamp), UNIQUE(phone, fact)
insert_or_ignore_memory(tbl, phone, fact, category, timestamp) ==
    IF \E r \in tbl : r.phone = phone /\ r.fact = fact
    THEN tbl
    ELSE tbl \cup {[id |-> next_id(tbl), phone |-> phone, fact |-> fact,
                    category |-> category, timestamp |-> timestamp]}

\* fault: one summary per phone, the new one overwrites the old one
insert_summary_replacing(tbl, phone, summary, message_count, timestamp) ==
    {r \in tbl : r.phone # phone}
        \cup {[id |-> next_id(tbl), phone |-> phone, summary |-> summary,
                message_count |-> message_count, timestamp |-> timestamp]}

\* INSERT INTO summaries (phone, summary, message_count, timestamp)
insert_summary(tbl, phone, summary, message_count, timestamp) ==
    tbl \cup {[id |-> next_id(tbl), phone |-> phone, summary |-> summary,
               message_count |-> message_count, timestamp |-> timestamp]}

---------------------------------------------------------------------------
(* The read functions, on the current tables *)

message_dict(r) == [role |-> r.role, content |-> r.content, timestamp |-> r.timestamp]

\* fault: rows.reverse() left out
get_conversation_history_unreversed(phone, limit) ==
    LET rows == sql_limit(order_by_id_desc({r \in messages : r.phone = phone}), limit)
    IN  [i \in 1..Len(rows) |-> message_dict(rows[i])]

get_conversation_history(phone, limit) ==
    LET rows == reverse(sql_limit(order_by_id_desc({r \in messages : r.phone = phone}), limit))
    IN  [i \in 1..Len(rows) |-> message_dict(rows[i])]

\* fault: ORDER BY id DESC in place of ORDER BY id
get_all_history_newest_first(phone) ==
    LET rows == order_by_id_desc({r \in messages : r.phone = phone})
    IN  [i \in 1..Len(rows) |-> message_dict(rows[i])]

get_all_history(phone) ==
    LET rows == order_by_id({r \in messages : r.phone = phone})
    IN  [i \in 1..Len(rows) |-> message_dict(rows[i])]

get_memories(phone) ==
    LET rows == order_by_id({r \in memories : r.phone = phone})
    IN  [i \in 1..Len(rows) |->
            [fact |-> rows[i].fact, category |-> rows[i].category,
             timestamp |-> rows[i].timestamp]]

get_summaries(phone) ==
    LET rows == order_by_id({r \in summaries : r.phone = phone})
    IN  [i \in 1..Len(rows) |->
            [summary |-> rows[i].summary, message_count |-> rows[i].message_count,
             timestamp |-> rows[i].timestamp]]

\* SELECT COUNT(*) FROM messages WHERE phone = ?
get_message_count(phone) == Cardinality({r \in messages : r.phone = phone})

---------------------------------------------------------------------------
(* export_memory_to_json / import_memory_from_json *)

\* fault: the message rows exported newest first
export_rows_newest_first(msgs, mems, sums, at) ==
    LET m == order_by_id_desc(msgs)
        f == order_by_id(mems)
        s == order_by_id(sums)
    IN  [messages  |-> [i \in 1..Len(m) |->
                           [phone |-> m[i].phone, role |-> m[i].role,
                            content |-> m[i].content, timestamp |-> m[i].timestamp]],
         memories  |-> [i \in 1..Len(f) |->
                           [phone |-> f[i].phone, fact |-> f[i].fact,
                            category |-> f[i].category, timestamp |-> f[i].timestamp]],
         summaries |-> [i \in 1..Len(s) |->
                           [phone |-> s[i].phone, summary |-> s[i].summary,
                            message_count |-> s[i].message_count,
                            timestamp |-> s[i].timestamp]],
         exported_at |-> at]

\* SELECT ... ORDER BY id on each table, as lists of dicts without the ids
export_rows(msgs, mems, sums, at) ==
    LET m == order_by_id(msgs)
        f == order_by_id(mems)
        s == order_by_id(sums)
    IN  [messages  |-> [i \in 1..Len(m) |->
                           [phone |-> m[i].phone, role |-> m[i].role,
                            content |-> m[i].content, timestamp |-> m[i].timestamp]],
         memories  |-> [i \in 1..Len(f) |->
                           [phone |-> f[i].phone, fact |-> f[i].fact,
                            category |-> f[i].category, timestamp |-> f[i].timestamp]],
         summaries |-> [i \in 1..Len(s) |->
                           [phone |-> s[i].phone, summary |-> s[i].summary,
                            message_count |-> s[i].message_count,
                            timestamp |-> s[i].timestamp]],
         exported_at |-> at]

export_memory_to_json == export_rows(messages, memories, summaries, now)

\* data.get(key, [])
data_get(data, key) == IF key \in DOMAIN data THEN data[key] ELSE <<>>

\* m['a'], m['b'], ... raise no KeyError
has_keys(m, keys) == keys \subseteq DOMAIN m

RECURSIVE import_messages_deduplicated(_, _)
\* fault: a message row equal to a stored one is skipped
import_messages_deduplicated(tbl, rows) ==
    IF rows = <<>> THEN tbl
    ELSE LET m == Head(rows)
         IN  import_messages_deduplicated(
                 IF \E r \in tbl : /\ r.phone = m.phone /\ r.role = m.role
                                    /\ r.content = m.content /\ r.timestamp = m.timestamp
                 THEN tbl
                 ELSE insert_message(tbl, m.phone, m.role, m.content, m.timestamp),
                 Tail(rows))

RECURSIVE import_messages(_, _)
\* for m in data.get('messages', []): try INSERT except pass
import_messages(tbl, rows) ==
    IF rows = <<>> THEN tbl
    ELSE LET m == Head(rows)
         IN  import_messages(
                 IF has_keys(m, {"phone", "role", "content", "timestamp"})
                 THEN insert_message(tbl, m.phone, m.role, m.content, m.timestamp)
                 ELSE tbl,
                 Tail(rows))

RECURSIVE import_memories(_, _)
\* for m in data.get('memories', []): try INSERT OR IGNORE except pass
import_memories(tbl, rows) ==
    IF rows = <<>> THEN tbl
    ELSE LET m == Head(rows)
         IN  import_memories(
                 IF has_keys(m, {"phone", "fact", "category", "timestamp"})
                 THEN insert_or_ignore_memory(tbl, m.phone, m.fact, m.category, m.timestamp)
                 ELSE tbl,
                 Tail(rows))

RECURSIVE import_summaries(_, _)
\* for s in data.get('summaries', []): try INSERT except pass
import_summaries(tbl, rows) ==
    IF rows = <<>> THEN tbl
    ELSE LET s == Head(rows)
         IN  import_summaries(
                 IF has_keys(s, {"phone", "summary", "message_count", "timestamp"})
                 THEN insert_summary(tbl, s.phone, s.summary, s.message_count, s.timestamp)
                 ELSE tbl,
                 Tail(rows))

RECURSIVE log_import(_, _)
\* the history variable log after the message rows of an import are committed
log_import(lg, rows) ==
    IF rows = <<>> THEN lg
    ELSE LET m == Head(rows)
         IN  log_import(
                 IF has_keys(m, {"phone", "role", "content", "timestamp"})
                 THEN [lg EXCEPT ![m.phone] = Append(@, message_dict(m))]
                 ELSE lg,
                 Tail(rows))

\* fault: user_speech saved without .strip()
extract_memories_unstripped(tbl, phone, user_speech, timestamp) ==
    LET i == first_match(user_speech)
    IN  IF i = 0 THEN tbl
        ELSE insert_or_ignore_memory(tbl, phone, user_speech,
                                     fact_patterns[i].category, timestamp)

\* the facts extract_memories_from_message leaves in the table
extract_memories_from_message(tbl, phone, user_speech, timestamp) ==
    LET i == first_match(user_speech)
    IN  IF i = 0 THEN tbl
        ELSE insert_or_ignore_memory(tbl, phone, strip(user_speech),
                                     fact_patterns[i].category, timestamp)

---------------------------------------------------------------------------
(* The process: the main thread, the backup thread, the request handlers *)

Phones == {"+15550001", "+15550002"}

\* the request threads: one serves the requests of Spec, both those of SpecPair
Handlers == {"h1"}

Callers == {"h1", "h2"}

Tasks == Callers \cup {"main", "backup"}

\* _db_lock is free: no task is inside a "with _db_lock:" block
Unlocked == {}

\* SpeechResult values a request to /voice/process carries
Speeches == {<<>>, U_hiking, U_bye}

\* what model.generate_content() + json.loads() can give the summarizer
SummarizerResults ==
    { [summary |-> S_summary, facts |-> <<F_tea, A_call>>, action_items |-> <<A_call>>],
      [summary |-> <<>>,      facts |-> <<U_hiking>>,      action_items |-> <<>>] }

NoResult == [summary |-> <<>>, facts |-> <<>>, action_items |-> <<>>]

NoData == [messages |-> <<>>, memories |-> <<>>, summaries |-> <<>>, exported_at |-> -1]

NoLocals ==
    [phone |-> "", speech |-> <<>>, ai_response |-> <<>>, n |-> 0, result |-> NoResult,
     i |-> 0, memory_data |-> NoData, files |-> 0, user_saved |-> FALSE,
     extracted |-> FALSE,
     \* history of the summarizer run: generate_content was invoked, the rows the
     \* run added, the save_memory calls it made
     invoked |-> FALSE, summaries_written |-> {}, facts_written |-> {}, fact_calls |-> 0,
     \* history of the backup thread: its last backup_memory_to_drive() failed
     failed |-> FALSE]

\* the statements that run inside "with _db_lock:"
LockedOps ==
    {"init_db", "rs_import", "bk_export", "save_user", "sum_history", "sum_save",
     "sum_facts", "sum_actions", "ai_history", "ai_memories", "ai_summaries",
     "save_assistant", "save_fact"}

\* if len(ai_response) > 400: ai_response = ai_response[:400] + "..."
truncate(ai_response) ==
    IF Len(ai_response) > 400 THEN concat(SubSeq(ai_response, 1, 400), ELLIPSIS)
    ELSE ai_response

(* The store an earlier run of the process left behind: two turns and a    *)
(* goodbye by one caller, summarized and backed up, all at timestamp 0.    *)
PriorMessages ==
    LET P == "+15550001"
        m1 == insert_message({}, P, "user", U_hiking, 0)
        m2 == insert_message(m1, P, "assistant", R_ok, 0)
        m3 == insert_message(m2, P, "user", U_sam, 0)
        m4 == insert_message(m3, P, "assistant", R_ok, 0)
    IN  insert_message(m4, P, "user", U_bye, 0)

PriorMemories ==
    LET P == "+15550001"
        f1 == extract_memories_from_message({}, P, U_hiking, 0)
        f2 == extract_memories_from_message(f1, P, U_sam, 0)
    IN  insert_or_ignore_memory(f2, P, F_tea, "extracted", 0)

PriorSummaries == insert_summary({}, "+15550001", S_summary, 5, 0)

PriorSnapshot == export_rows(PriorMessages, PriorMemories, PriorSummaries, 0)

PriorLog ==
    LET rows == order_by_id(PriorMessages)
    IN  [p \in Phones |-> IF p = "+15550001"
                          THEN [i \in 1..Len(rows) |-> message_dict(rows[i])]
                          ELSE <<>>]

EmptyLog == [p \in Phones |-> <<>>]

NoCall == [fn |-> "none"]

NoStore == [messages |-> {}, memories |-> {}, summaries |-> {}]

\* the values datetime.now() takes in a run; timestamp 0 belongs to an earlier run
Clock == {1, 2}

Init ==
    /\ \/ /\ messages = {} /\ memories = {} /\ summaries = {} /\ log = EmptyLog
       \/ /\ messages = PriorMessages /\ memories = PriorMemories
          /\ summaries = PriorSummaries /\ log = PriorLog
    /\ drive \in {<<>>, <<PriorSnapshot>>}
    /\ lock = Unlocked
    /\ pc = [t \in Tasks |-> CASE t = "main" -> "init_db"
                               [] t = "backup" -> "unstarted"
                               [] OTHER -> "idle"]
    /\ loc = [t \in Tasks |-> NoLocals]
    /\ now = 1
    /\ requests = 0
    /\ call = NoCall
    /\ exported = NoStore


\* fault: the block is entered without waiting for the lock
Acquire_unguarded(t) ==
    /\ pc[t] \in LockedOps
    /\ t \notin lock
    /\ lock' = lock \cup {t}
    /\ UNCHANGED <<messages, memories, summaries, drive, pc, loc, now, requests, log, call, exported>>

\* entering "with _db_lock:"
Acquire(t) ==
    /\ pc[t] \in LockedOps
    /\ lock = Unlocked
    /\ lock' = lock \cup {t}
    /\ UNCHANGED <<messages, memories, summaries, drive, pc, loc, now, requests, log, call, exported>>

\* where a task goes when backup_memory_to_drive or a request handler returns
returned(t) == IF t = "backup" THEN "sleep" ELSE "idle"


---------------------------------------------------------------------------
(* main: init_db(); restore_memory_from_drive(); backup_thread.start() *)

\* init_db: CREATE TABLE IF NOT EXISTS changes no row
InitDb ==
    /\ pc["main"] = "init_db" /\ "main" \in lock
    /\ lock' = lock \ {"main"}
    /\ pc' = [pc EXCEPT !["main"] = "rs_list"]
    /\ UNCHANGED <<messages, memories, summaries, drive, loc, now, requests, log, call, exported>>

\* fault: "starting fresh" taken literally, the tables emptied when no file is found
RestoreList_starting_fresh ==
    /\ pc["main"] = "rs_list"
    /\ pc' = [pc EXCEPT !["main"] = IF drive = <<>> THEN "start_thread" ELSE "rs_get"]
    /\ IF drive = <<>>
       THEN messages' = {} /\ memories' = {} /\ summaries' = {} /\ log' = EmptyLog
       ELSE UNCHANGED <<messages, memories, summaries, log>>
    /\ UNCHANGED <<drive, lock, loc, now, requests, call, exported>>

\* drive.files().list(): a backup file is found, or none is
RestoreList ==
    /\ pc["main"] = "rs_list"
    /\ pc' = [pc EXCEPT !["main"] = IF drive = <<>> THEN "start_thread" ELSE "rs_get"]
    /\ UNCHANGED <<messages, memories, summaries, drive, lock, loc, now, requests, log, call, exported>>

\* get_media(fileId=files[0]['id']) and json.loads
RestoreGet ==
    /\ pc["main"] = "rs_get"
    /\ loc' = [loc EXCEPT !["main"].memory_data = drive[1]]
    /\ pc' = [pc EXCEPT !["main"] = "rs_import"]
    /\ UNCHANGED <<messages, memories, summaries, drive, lock, now, requests, log, call, exported>>

\* a Drive call of the restore raises: caught, "Drive restore failed"
RestoreFails ==
    /\ pc["main"] \in {"rs_list", "rs_get"}
    /\ pc' = [pc EXCEPT !["main"] = "start_thread"]
    /\ loc' = [loc EXCEPT !["main"] = NoLocals]
    /\ UNCHANGED <<messages, memories, summaries, drive, lock, now, requests, log, call, exported>>

\* import_memory_from_json(data)
RestoreImport ==
    /\ pc["main"] = "rs_import" /\ "main" \in lock
    /\ LET data == loc["main"].memory_data
       IN  /\ messages' = import_messages(messages, data_get(data, "messages"))
           /\ memories' = import_memories(memories, data_get(data, "memories"))
           /\ summaries' = import_summaries(summaries, data_get(data, "summaries"))
           /\ log' = log_import(log, data_get(data, "messages"))
    /\ lock' = lock \ {"main"}
    /\ pc' = [pc EXCEPT !["main"] = "start_thread"]
    /\ loc' = [loc EXCEPT !["main"] = NoLocals]
    /\ UNCHANGED <<drive, now, requests, call, exported>>

\* fault: the restore called again once the backup thread runs
StartThread_then_restore ==
    /\ pc["main"] = "start_thread"
    /\ pc' = [pc EXCEPT !["main"] = IF pc["backup"] = "unstarted" THEN "rs_list" ELSE "serving",
                        !["backup"] = "sleep"]
    /\ UNCHANGED <<messages, memories, summaries, drive, lock, loc, now, requests, log, call, exported>>

\* threading.Thread(target=periodic_backup).start(); app.run()
StartThread ==
    /\ pc["main"] = "start_thread"
    /\ pc' = [pc EXCEPT !["main"] = "serving", !["backup"] = "sleep"]
    /\ UNCHANGED <<messages, memories, summaries, drive, lock, loc, now, requests, log, call, exported>>

---------------------------------------------------------------------------
(* backup_memory_to_drive, called by periodic_backup and by voice_process *)

\* periodic_backup: time.sleep(300) is over, and datetime.now() has moved on
Wake ==
    /\ pc["backup"] = "sleep"
    /\ now + 1 \in Clock
    /\ now' = now + 1
    /\ pc' = [pc EXCEPT !["backup"] = "bk_export"]
    /\ UNCHANGED <<messages, memories, summaries, drive, lock, loc, requests, log, call, exported>>

\* trigger_backup: a request to /memory/backup calls backup_memory_to_drive()
TriggerBackup(h) ==
    /\ pc["main"] = "serving" /\ pc[h] = "idle"
    /\ requests < MaxRequests
    /\ requests' = requests + 1
    /\ pc' = [pc EXCEPT ![h] = "bk_export"]
    /\ UNCHANGED <<messages, memories, summaries, drive, lock, loc, now, log, call, exported>>

\* memory_data = export_memory_to_json()
BackupExport(t) ==
    /\ pc[t] = "bk_export" /\ t \in lock
    /\ loc' = [loc EXCEPT ![t].memory_data = export_memory_to_json]
    /\ lock' = lock \ {t}
    /\ pc' = [pc EXCEPT ![t] = "bk_list"]
    /\ UNCHANGED <<messages, memories, summaries, drive, now, requests, log, call, exported>>

\* files = drive.files().list(...).execute().get('files', [])
BackupList(t) ==
    /\ pc[t] = "bk_list"
    /\ loc' = [loc EXCEPT ![t].files = Len(drive)]
    /\ pc' = [pc EXCEPT ![t] = "bk_write"]
    /\ UNCHANGED <<messages, memories, summaries, drive, lock, now, requests, log, call, exported>>

\* if files: update(fileId=files[0]['id']) else: create(...)
BackupWrite(t) ==
    /\ pc[t] = "bk_write"
    /\ drive' = IF loc[t].files > 0
                THEN [drive EXCEPT ![1] = loc[t].memory_data]
                ELSE Append(drive, loc[t].memory_data)
    /\ pc' = [pc EXCEPT ![t] = returned(t)]
    /\ loc' = [loc EXCEPT ![t] = NoLocals]
    /\ UNCHANGED <<messages, memories, summaries, lock, now, requests, log, call, exported>>

\* fault: the exception leaves periodic_backup, the thread ends
BackupFails_ending_thread(t) ==
    /\ \/ pc[t] = "bk_export" /\ t \notin lock
       \/ pc[t] \in {"bk_list", "bk_write"}
    /\ pc' = [pc EXCEPT ![t] = IF t = "backup" THEN "ended" ELSE "idle"]
    /\ loc' = [loc EXCEPT ![t] = [NoLocals EXCEPT !.failed = (t = "backup")]]
    /\ UNCHANGED <<messages, memories, summaries, drive, lock, now, requests, log, call, exported>>

\* a Drive call of the backup raises (or no Google tokens are configured):
\* caught, "Drive backup failed"
BackupFails(t) ==
    /\ \/ pc[t] = "bk_export" /\ t \notin lock
       \/ pc[t] \in {"bk_list", "bk_write"}
    /\ pc' = [pc EXCEPT ![t] = returned(t)]
    /\ loc' = [loc EXCEPT ![t] = [NoLocals EXCEPT !.failed = (t = "backup")]]
    /\ UNCHANGED <<messages, memories, summaries, drive, lock, now, requests, log, call, exported>>

---------------------------------------------------------------------------
(* voice_process: one request to /voice/process *)

\* the request arrives; "if not speech:" answers at once and stores nothing
StartRequest(h, phone, speech) ==
    /\ pc["main"] = "serving" /\ pc[h] = "idle"
    /\ requests < MaxRequests
    /\ requests' = requests + 1
    /\ loc' = [loc EXCEPT ![h] = [NoLocals EXCEPT !.phone = phone, !.speech = speech]]
    /\ pc' = [pc EXCEPT ![h] = IF speech = <<>> THEN "idle" ELSE "save_user"]
    /\ UNCHANGED <<messages, memories, summaries, drive, lock, now, log, call, exported>>

\* fault: the extractor called right after the user message is saved
SaveUser_then_extract(h) ==
    /\ pc[h] = "save_user" /\ h \in lock
    /\ messages' = insert_message(messages, loc[h].phone, "user", loc[h].speech, now)
    /\ log' = [log EXCEPT ![loc[h].phone] =
                  Append(@, [role |-> "user", content |-> loc[h].speech, timestamp |-> now])]
    /\ lock' = lock \ {h}
    /\ loc' = [loc EXCEPT ![h].user_saved = TRUE]
    /\ pc' = [pc EXCEPT ![h] = IF is_goodbye(loc[h].speech) THEN "sum_history"
                                                            ELSE "extract"]
    /\ UNCHANGED <<memories, summaries, drive, now, requests, call, exported>>

\* save_message(from_number, 'user', speech), then the goodbye test
SaveUser(h) ==
    /\ pc[h] = "save_user" /\ h \in lock
    /\ messages' = insert_message(messages, loc[h].phone, "user", loc[h].speech, now)
    /\ log' = [log EXCEPT ![loc[h].phone] =
                  Append(@, [role |-> "user", content |-> loc[h].speech, timestamp |-> now])]
    /\ lock' = lock \ {h}
    /\ loc' = [loc EXCEPT ![h].user_saved = TRUE]
    /\ pc' = [pc EXCEPT ![h] = IF is_goodbye(loc[h].speech) THEN "sum_history"
                                                            ELSE "ai_history"]
    /\ UNCHANGED <<memories, summaries, drive, now, requests, call, exported>>

\* get_ai_response: history = get_conversation_history(from_number, limit=50)
AiHistory(h) ==
    /\ pc[h] = "ai_history" /\ h \in lock
    /\ lock' = lock \ {h}
    /\ pc' = [pc EXCEPT ![h] = "ai_memories"]
    /\ UNCHANGED <<messages, memories, summaries, drive, loc, now, requests, log, call, exported>>

\* get_ai_response: memories = get_memories(from_number)
AiMemories(h) ==
    /\ pc[h] = "ai_memories" /\ h \in lock
    /\ lock' = lock \ {h}
    /\ pc' = [pc EXCEPT ![h] = "ai_summaries"]
    /\ UNCHANGED <<messages, memories, summaries, drive, loc, now, requests, log, call, exported>>

\* get_ai_response: summaries = get_summaries(from_number)
AiSummaries(h) ==
    /\ pc[h] = "ai_summaries" /\ h \in lock
    /\ lock' = lock \ {h}
    /\ pc' = [pc EXCEPT ![h] = "ai_call"]
    /\ UNCHANGED <<messages, memories, summaries, drive, loc, now, requests, log, call, exported>>

\* get_gemini_response: the model answers, or the call raises and the
\* function returns its own apology
AiCall(h) ==
    /\ pc[h] = "ai_call"
    /\ \E text \in {R_ok, R_fallback} :
           loc' = [loc EXCEPT ![h].ai_response = truncate(text)]
    /\ pc' = [pc EXCEPT ![h] = "save_assistant"]
    /\ UNCHANGED <<messages, memories, summaries, drive, lock, now, requests, log, call, exported>>

\* get_ai_response raises (a read of the store fails): voice_process catches it
\* and answers with its own apology
AiFails(h) ==
    /\ pc[h] \in {"ai_history", "ai_memories", "ai_summaries"} /\ h \notin lock
    /\ loc' = [loc EXCEPT ![h].ai_response = R_trouble]
    /\ pc' = [pc EXCEPT ![h] = "save_assistant"]
    /\ UNCHANGED <<messages, memories, summaries, drive, lock, now, requests, log, call, exported>>

\* fault: the reply is built right after the assistant message is saved
SaveAssistant_then_respond(h) ==
    /\ pc[h] = "save_assistant" /\ h \in lock
    /\ messages' = insert_message(messages, loc[h].phone, "assistant",
                                  loc[h].ai_response, now)
    /\ log' = [log EXCEPT ![loc[h].phone] =
                  Append(@, [role |-> "assistant", content |-> loc[h].ai_response,
                             timestamp |-> now])]
    /\ lock' = lock \ {h}
    /\ pc' = [pc EXCEPT ![h] = "respond"]
    /\ UNCHANGED <<memories, summaries, drive, loc, now, requests, call, exported>>

\* save_message(from_number, 'assistant', ai_response)
SaveAssistant(h) ==
    /\ pc[h] = "save_assistant" /\ h \in lock
    /\ messages' = insert_message(messages, loc[h].phone, "assistant",
                                  loc[h].ai_response, now)
    /\ log' = [log EXCEPT ![loc[h].phone] =
                  Append(@, [role |-> "assistant", content |-> loc[h].ai_response,
                             timestamp |-> now])]
    /\ lock' = lock \ {h}
    /\ pc' = [pc EXCEPT ![h] = "extract"]
    /\ UNCHANGED <<memories, summaries, drive, loc, now, requests, call, exported>>

\* extract_memories_from_message(from_number, speech): the keyword scan
Extract(h) ==
    /\ pc[h] = "extract"
    /\ pc' = [pc EXCEPT ![h] = IF first_match(loc[h].speech) = 0 THEN "respond"
                                                                 ELSE "save_fact"]
    /\ loc' = [loc EXCEPT ![h].extracted = TRUE]
    /\ UNCHANGED <<messages, memories, summaries, drive, lock, now, requests, log, call, exported>>

\* extract_memories_from_message: save_memory(phone, user_speech.strip(), category)
SaveFact(h) ==
    /\ pc[h] = "save_fact" /\ h \in lock
    /\ memories' = extract_memories_from_message(memories, loc[h].phone, loc[h].speech, now)
    /\ lock' = lock \ {h}
    /\ pc' = [pc EXCEPT ![h] = "respond"]
    /\ UNCHANGED <<messages, summaries, drive, loc, now, requests, log, call, exported>>

\* the reply is built (Gather, say, redirect) and voice_process returns
Respond(h) ==
    /\ pc[h] = "respond"
    /\ pc' = [pc EXCEPT ![h] = "idle"]
    /\ loc' = [loc EXCEPT ![h] = NoLocals]
    /\ UNCHANGED <<messages, memories, summaries, drive, lock, now, requests, log, call,
                   exported>>

---------------------------------------------------------------------------
(* summarize_and_extract, called by voice_process on goodbye *)

\* the next statement of summarize_and_extract once the summary is dealt with
after_summary(result) ==
    IF Len(result.facts) > 0 THEN "sum_facts"
    ELSE IF Len(result.action_items) > 0 THEN "sum_actions"
    ELSE "bk_export"

\* fault: the messages of every phone counted (WHERE phone = ? left out)
SumHistory_counting_every_phone(h) ==
    /\ pc[h] = "sum_history" /\ h \in lock
    /\ lock' = lock \ {h}
    /\ loc' = [loc EXCEPT ![h].n = Cardinality(messages)]
    /\ pc' = [pc EXCEPT ![h] = IF Cardinality(messages) < 4 THEN "bk_export" ELSE "sum_call"]
    /\ UNCHANGED <<messages, memories, summaries, drive, now, requests, log, call, exported>>

\* fault: the test "len(all_msgs) < 4" left out
SumHistory_without_threshold(h) ==
    /\ pc[h] = "sum_history" /\ h \in lock
    /\ lock' = lock \ {h}
    /\ loc' = [loc EXCEPT ![h].n = Len(get_all_history(loc[h].phone))]
    /\ pc' = [pc EXCEPT ![h] = "sum_call"]
    /\ UNCHANGED <<messages, memories, summaries, drive, now, requests, log, call, exported>>

\* fault: the lock taken for the read is kept during the model call
SumHistory_keeping_lock(h) ==
    /\ pc[h] = "sum_history" /\ h \in lock
    /\ loc' = [loc EXCEPT ![h].n = Len(get_all_history(loc[h].phone))]
    /\ pc' = [pc EXCEPT ![h] = IF Len(get_all_history(loc[h].phone)) < 4
                               THEN "bk_export" ELSE "sum_call"]
    /\ UNCHANGED <<messages, memories, summaries, drive, lock, now, requests, log, call, exported>>

\* all_msgs = get_all_history(phone); if len(all_msgs) < 4: return
SumHistory(h) ==
    /\ pc[h] = "sum_history" /\ h \in lock
    /\ lock' = lock \ {h}
    /\ loc' = [loc EXCEPT ![h].n = Len(get_all_history(loc[h].phone))]
    /\ pc' = [pc EXCEPT ![h] = IF Len(get_all_history(loc[h].phone)) < 4
                               THEN "bk_export" ELSE "sum_call"]
    /\ UNCHANGED <<messages, memories, summaries, drive, now, requests, log, call, exported>>

\* fault: save_summary called without the test "if result.get('summary')"
SumCall_always_saving(h) ==
    /\ pc[h] = "sum_call"
    /\ \E result \in SummarizerResults :
           /\ loc' = [loc EXCEPT ![h].result = result, ![h].i = 1, ![h].invoked = TRUE]
           /\ pc' = [pc EXCEPT ![h] = "sum_save"]
    /\ UNCHANGED <<messages, memories, summaries, drive, lock, now, requests, log, call, exported>>

\* result = json.loads(model.generate_content(prompt).text)
SumCall(h) ==
    /\ pc[h] = "sum_call"
    /\ \E result \in SummarizerResults :
           /\ loc' = [loc EXCEPT ![h].result = result, ![h].i = 1, ![h].invoked = TRUE]
           /\ pc' = [pc EXCEPT ![h] = IF result.summary # <<>> THEN "sum_save"
                                      ELSE after_summary(result)]
    /\ UNCHANGED <<messages, memories, summaries, drive, lock, now, requests, log, call, exported>>

\* fault: the exception of the summarizer ends the goodbye branch, no backup
SumFails_skipping_backup(h) ==
    /\ \/ pc[h] = "sum_history" /\ h \notin lock
       \/ pc[h] = "sum_call"
    /\ pc' = [pc EXCEPT ![h] = "idle"]
    /\ loc' = [loc EXCEPT ![h].invoked = (pc[h] = "sum_call")]
    /\ UNCHANGED <<messages, memories, summaries, drive, lock, now, requests, log, call, exported>>

\* genai, the model call or json.loads raises: caught, "Summarization failed"
SumFails(h) ==
    /\ \/ pc[h] = "sum_history" /\ h \notin lock
       \/ pc[h] = "sum_call"
    /\ pc' = [pc EXCEPT ![h] = "bk_export"]
    /\ loc' = [loc EXCEPT ![h].invoked = (pc[h] = "sum_call")]
    /\ UNCHANGED <<messages, memories, summaries, drive, lock, now, requests, log, call, exported>>

\* save_summary(phone, result['summary'], len(all_msgs))
SumSave(h) ==
    /\ pc[h] = "sum_save" /\ h \in lock
    /\ summaries' = insert_summary(summaries, loc[h].phone, loc[h].result.summary,
                                   loc[h].n, now)
    /\ lock' = lock \ {h}
    /\ pc' = [pc EXCEPT ![h] = after_summary(loc[h].result)]
    /\ loc' = [loc EXCEPT ![h].summaries_written = @ \cup (summaries' \ summaries)]
    /\ UNCHANGED <<messages, memories, drive, now, requests, log, call, exported>>

\* for fact in result.get('facts', []): save_memory(phone, fact, 'extracted')
SumFacts(h) ==
    /\ pc[h] = "sum_facts" /\ h \in lock
    /\ memories' = insert_or_ignore_memory(memories, loc[h].phone,
                                           loc[h].result.facts[loc[h].i], "extracted", now)
    /\ lock' = lock \ {h}
    /\ IF loc[h].i < Len(loc[h].result.facts)
       THEN /\ loc' = [loc EXCEPT ![h].i = @ + 1, ![h].fact_calls = @ + 1,
                                  ![h].facts_written = @ \cup (memories' \ memories)]
            /\ pc' = pc
       ELSE /\ loc' = [loc EXCEPT ![h].i = 1, ![h].fact_calls = @ + 1,
                                  ![h].facts_written = @ \cup (memories' \ memories)]
            /\ pc' = [pc EXCEPT ![h] = IF Len(loc[h].result.action_items) > 0
                                       THEN "sum_actions" ELSE "bk_export"]
    /\ UNCHANGED <<messages, summaries, drive, now, requests, log, call, exported>>

\* fault: the action item saved without the "ACTION: " prefix
SumActions_without_prefix(h) ==
    /\ pc[h] = "sum_actions" /\ h \in lock
    /\ memories' = insert_or_ignore_memory(memories, loc[h].phone,
                       loc[h].result.action_items[loc[h].i], "action_item", now)
    /\ lock' = lock \ {h}
    /\ IF loc[h].i < Len(loc[h].result.action_items)
       THEN /\ loc' = [loc EXCEPT ![h].i = @ + 1, ![h].fact_calls = @ + 1,
                                  ![h].facts_written = @ \cup (memories' \ memories)]
            /\ pc' = pc
       ELSE /\ loc' = [loc EXCEPT ![h].i = 1, ![h].fact_calls = @ + 1,
                                  ![h].facts_written = @ \cup (memories' \ memories)]
            /\ pc' = [pc EXCEPT ![h] = "bk_export"]
    /\ UNCHANGED <<messages, summaries, drive, now, requests, log, call, exported>>

\* for item in result.get('action_items', []): save_memory(phone, f"ACTION: {item}", 'action_item')
SumActions(h) ==
    /\ pc[h] = "sum_actions" /\ h \in lock
    /\ memories' = insert_or_ignore_memory(memories, loc[h].phone,
                       concat(ACTION_PREFIX, loc[h].result.action_items[loc[h].i]),
                       "action_item", now)
    /\ lock' = lock \ {h}
    /\ IF loc[h].i < Len(loc[h].result.action_items)
       THEN /\ loc' = [loc EXCEPT ![h].i = @ + 1, ![h].fact_calls = @ + 1,
                                  ![h].facts_written = @ \cup (memories' \ memories)]
            /\ pc' = pc
       ELSE /\ loc' = [loc EXCEPT ![h].i = 1, ![h].fact_calls = @ + 1,
                                  ![h].facts_written = @ \cup (memories' \ memories)]
            /\ pc' = [pc EXCEPT ![h] = "bk_export"]
    /\ UNCHANGED <<messages, summaries, drive, now, requests, log, call, exported>>

---------------------------------------------------------------------------

Next ==
    \/ \E t \in Tasks : Acquire(t)
    \/ InitDb
    \/ RestoreList
    \/ RestoreGet
    \/ RestoreFails
    \/ RestoreImport
    \/ StartThread
    \/ Wake
    \/ \E h \in Handlers : TriggerBackup(h)
    \/ \E t \in Tasks : BackupExport(t)
    \/ \E t \in Tasks : BackupList(t)
    \/ \E t \in Tasks : BackupWrite(t)
    \/ \E t \in Tasks : BackupFails(t)
    \/ \E h \in Handlers, phone \in Phones, speech \in Speeches : StartRequest(h, phone, speech)
    \/ \E h \in Handlers : SaveUser(h)
    \/ \E h \in Handlers : AiHistory(h)
    \/ \E h \in Handlers : AiMemories(h)
    \/ \E h \in Handlers : AiSummaries(h)
    \/ \E h \in Handlers : AiCall(h)
    \/ \E h \in Handlers : AiFails(h)
    \/ \E h \in Handlers : SaveAssistant(h)
    \/ \E h \in Handlers : Extract(h)
    \/ \E h \in Handlers : SaveFact(h)
    \/ \E h \in Handlers : Respond(h)
    \/ \E h \in Handlers : SumHistory(h)
    \/ \E h \in Handlers : SumCall(h)
    \/ \E h \in Handlers : SumFails(h)
    \/ \E h \in Handlers : SumSave(h)
    \/ \E h \in Handlers : SumFacts(h)
    \/ \E h \in Handlers : SumActions(h)

Spec == Init /\ [][Next]_vars

---------------------------------------------------------------------------
(* The storage functions called one at a time, in any order                *)

Utterances == {U_hiking, U_sam, U_sunny, U_padded, U_remind, U_bye}

Categories == {"general", "extracted"}

InitApi ==
    /\ \/ /\ messages = {} /\ memories = {} /\ summaries = {} /\ log = EmptyLog
       \/ /\ messages = PriorMessages /\ memories = PriorMemories
          /\ summaries = PriorSummaries /\ log = PriorLog
    /\ drive = <<>>
    /\ lock = Unlocked
    /\ pc = [t \in Tasks |-> "idle"]
    /\ loc = [t \in Tasks |-> NoLocals]
    /\ now = 1
    /\ requests = 0
    /\ call = NoCall
    /\ exported = NoStore

\* datetime.now() moves on between two calls
ClockTick ==
    /\ now + 1 \in Clock
    /\ now' = now + 1
    /\ UNCHANGED <<messages, memories, summaries, drive, lock, pc, loc, requests, log, call,
                   exported>>

\* save_message(phone, role, content)
CallSaveMessage(phone, role, content) ==
    /\ requests < MaxCalls
    /\ requests' = requests + 1
    /\ messages' = insert_message(messages, phone, role, content, now)
    /\ log' = [log EXCEPT ![phone] =
                  Append(@, [role |-> role, content |-> content, timestamp |-> now])]
    /\ call' = [fn |-> "save_message", phone |-> phone]
    /\ UNCHANGED <<memories, summaries, drive, lock, pc, loc, now, exported>>

\* save_summary(phone, summary, message_count)
CallSaveSummary(phone, summary, message_count) ==
    /\ requests < MaxCalls
    /\ requests' = requests + 1
    /\ summaries' = insert_summary(summaries, phone, summary, message_count, now)
    /\ call' = [fn |-> "save_summary", phone |-> phone]
    /\ UNCHANGED <<messages, memories, drive, lock, pc, loc, now, log, exported>>

\* save_memory(phone, fact, category) between two calls of SpecApi
CallRecordFact(phone, fact, category) ==
    /\ requests < MaxCalls
    /\ requests' = requests + 1
    /\ memories' = insert_or_ignore_memory(memories, phone, fact, category, now)
    /\ call' = [fn |-> "save_memory", phone |-> phone, fact |-> fact, category |-> category]
    /\ UNCHANGED <<messages, summaries, drive, lock, pc, loc, now, log, exported>>

\* export_memory_to_json(): the snapshot is kept, as the Drive backup keeps it
CallExport ==
    /\ requests < MaxCalls
    /\ requests' = requests + 1
    /\ drive' = <<export_memory_to_json>>
    /\ exported' = [messages |-> messages, memories |-> memories, summaries |-> summaries]
    /\ call' = [fn |-> "export"]
    /\ UNCHANGED <<messages, memories, summaries, lock, pc, loc, now, log>>

\* import_memory_from_json(data) with the snapshot that was kept
CallImport ==
    /\ requests < MaxCalls
    /\ drive # <<>>
    /\ requests' = requests + 1
    /\ messages' = import_messages(messages, data_get(drive[1], "messages"))
    /\ memories' = import_memories(memories, data_get(drive[1], "memories"))
    /\ summaries' = import_summaries(summaries, data_get(drive[1], "summaries"))
    /\ log' = log_import(log, data_get(drive[1], "messages"))
    /\ call' = [fn |-> "import"]
    /\ UNCHANGED <<drive, lock, pc, loc, now, exported>>

\* the process starts again on a new database file: init_db() creates empty tables
CallInitDb ==
    /\ requests < MaxCalls
    /\ messages # {} \/ memories # {} \/ summaries # {}
    /\ requests' = requests + 1
    /\ messages' = {} /\ memories' = {} /\ summaries' = {}
    /\ log' = EmptyLog
    /\ call' = [fn |-> "init_db"]
    /\ UNCHANGED <<drive, lock, pc, loc, now, exported>>

NextApi ==
    \/ ClockTick
    \/ \E phone \in Phones : CallSaveMessage(phone, "user", U_hiking)
    \/ \E phone \in Phones : CallSaveMessage(phone, "assistant", R_ok)
    \/ \E phone \in Phones : CallSaveSummary(phone, S_summary, get_message_count(phone))
    \/ \E phone \in Phones : CallRecordFact(phone, F_tea, "extracted")
    \/ CallExport
    \/ CallImport
    \/ CallInitDb

SpecApi == InitApi /\ [][NextApi]_vars

---------------------------------------------------------------------------
(* save_memory and extract_memories_from_message on their own              *)

\* save_memory(phone, fact, category)
CallSaveMemory(phone, fact, category) ==
    /\ requests < MaxExtractCalls
    /\ requests' = requests + 1
    /\ memories' = insert_or_ignore_memory(memories, phone, fact, category, now)
    /\ call' = [fn |-> "save_memory", phone |-> phone, fact |-> fact, category |-> category]
    /\ UNCHANGED <<messages, summaries, drive, lock, pc, loc, now, log, exported>>

\* extract_memories_from_message(phone, user_speech)
CallExtract(phone, user_speech) ==
    /\ requests < MaxExtractCalls
    /\ requests' = requests + 1
    /\ memories' = extract_memories_from_message(memories, phone, user_speech, now)
    /\ call' = [fn |-> "extract", phone |-> phone, speech |-> user_speech]
    /\ UNCHANGED <<messages, summaries, drive, lock, pc, loc, now, log, exported>>

NextExtract ==
    \/ ClockTick
    \/ \E phone \in Phones, fact \in {U_hiking, F_tea}, category \in Categories :
           CallSaveMemory(phone, fact, category)
    \/ \E phone \in Phones, user_speech \in Utterances : CallExtract(phone, user_speech)

SpecExtract == InitApi /\ [][NextExtract]_vars

---------------------------------------------------------------------------
(* Two requests to /voice/process served at the same time, between two     *)
(* wake-ups of the backup thread                                           *)

\* the store of the earlier run after restore_memory_from_drive replayed its backup
RestoredMessages == import_messages(PriorMessages, PriorSnapshot.messages)

RestoredMemories == import_memories(PriorMemories, PriorSnapshot.memories)

RestoredSummaries == import_summaries(PriorSummaries, PriorSnapshot.summaries)

RestoredLog == log_import(PriorLog, PriorSnapshot.messages)

\* startup is over (no backup file was found, or the one found was replayed) and
\* both requests have been accepted and have an utterance to save
InitPair ==
    /\ \/ /\ messages = PriorMessages /\ memories = PriorMemories
          /\ summaries = PriorSummaries /\ log = PriorLog
          /\ drive = <<>>
       \/ /\ messages = RestoredMessages /\ memories = RestoredMemories
          /\ summaries = RestoredSummaries /\ log = RestoredLog
          /\ drive = <<PriorSnapshot>>
    /\ lock = Unlocked
    /\ \E p1, p2 \in Phones : \E s1, s2 \in {U_hiking, U_bye} :
           /\ loc = [t \in Tasks |->
                        CASE t = "h1" -> [NoLocals EXCEPT !.phone = p1, !.speech = s1]
                          [] t = "h2" -> [NoLocals EXCEPT !.phone = p2, !.speech = s2]
                          [] OTHER    -> NoLocals]
    /\ pc = [t \in Tasks |-> CASE t = "main" -> "serving"
                               [] t = "backup" -> "sleep"
                               [] OTHER -> "save_user"]
    /\ now = 1
    /\ requests = Cardinality(Callers)
    /\ call = NoCall
    /\ exported = NoStore

NextPair ==
    \/ \E t \in Tasks : Acquire(t)
    \/ \E t \in Tasks : BackupExport(t)
    \/ \E t \in Tasks : BackupList(t)
    \/ \E t \in Tasks : BackupWrite(t)
    \/ \E t \in Tasks : BackupFails(t)
    \/ \E h \in Callers : SaveUser(h)
    \/ \E h \in Callers : AiHistory(h)
    \/ \E h \in Callers : AiMemories(h)
    \/ \E h \in Callers : AiSummaries(h)
    \/ \E h \in Callers : AiCall(h)
    \/ \E h \in Callers : AiFails(h)
    \/ \E h \in Callers : SaveAssistant(h)
    \/ \E h \in Callers : Extract(h)
    \/ \E h \in Callers : SaveFact(h)
    \/ \E h \in Callers : Respond(h)
    \/ \E h \in Callers : SumHistory(h)
    \/ \E h \in Callers : SumCall(h)
    \/ \E h \in Callers : SumFails(h)
    \/ \E h \in Callers : SumSave(h)
    \/ \E h \in Callers : SumFacts(h)
    \/ \E h \in Callers : SumActions(h)

SpecPair == InitPair /\ [][NextPair]_vars

---------------------------------------------------------------------------
(* periodic_backup for the whole life of the process, with manual backups  *)

\* periodic_backup: time.sleep(300) is over, at any later time
WakeUp ==
    /\ pc["backup"] = "sleep"
    /\ now' = IF now + 1 \in Clock THEN now + 1 ELSE now
    /\ pc' = [pc EXCEPT !["backup"] = "bk_export"]
    /\ UNCHANGED <<messages, memories, summaries, drive, lock, loc, requests, log, call, exported>>

\* a store of one message and its snapshot
TimerMessages == insert_message({}, "+15550001", "user", U_bye, 0)

TimerSnapshot == export_rows(TimerMessages, {}, {}, 0)

\* the process after startup: the server is up and the backup thread sleeps
InitTimer ==
    /\ messages \in {{}, TimerMessages}
    /\ memories = {} /\ summaries = {} /\ log = EmptyLog
    /\ drive \in {<<>>, <<TimerSnapshot>>}
    /\ lock = Unlocked
    /\ pc = [t \in Tasks |-> CASE t = "main" -> "serving"
                               [] t = "backup" -> "sleep"
                               [] OTHER -> "idle"]
    /\ loc = [t \in Tasks |-> NoLocals]
    /\ now = 1
    /\ requests = 0
    /\ call = NoCall
    /\ exported = NoStore

\* the steps of the backup thread and of the thread of a request
TimerSteps ==
    \/ Acquire("backup") \/ WakeUp \/ BackupExport("backup") \/ BackupList("backup")
    \/ BackupWrite("backup") \/ BackupFails("backup")

RequestSteps(h) ==
    \/ Acquire(h) \/ BackupExport(h) \/ BackupList(h) \/ BackupWrite(h) \/ BackupFails(h)

NextTimer ==
    \/ TimerSteps
    \/ \E h \in Handlers : TriggerBackup(h)
    \/ \E h \in Handlers : RequestSteps(h)

\* every thread that can take a step is scheduled: sleep(300) ends, a Drive call
\* returns or raises, a held lock is released
Fairness ==
    /\ WF_vars(TimerSteps)
    /\ \A h \in Handlers : WF_vars(RequestSteps(h))

SpecTimer == InitTimer /\ [][NextTimer]_vars /\ Fairness

---------------------------------------------------------------------------
(* the startup and one request thread, with sqlite statements that raise    *)

\* a backup file whose JSON text is a list, not an object: data.get raises
JsonArray == [array |-> <<>>]

\* data has the method get()
is_object(data) == "array" \notin DOMAIN data

\* where control goes when the sqlite call of the statement raises inside its
\* "with _db_lock:" block: to the except clause around it, and out of
\* voice_process (Flask answers 500) where there is none
on_storage_error(t, at) ==
    CASE at = "rs_import" -> "start_thread"
      [] at = "bk_export" -> returned(t)
      [] at \in {"save_user", "save_assistant"} -> "error_500"
      [] at \in {"ai_history", "ai_memories", "ai_summaries"} -> "save_assistant"
      [] at = "save_fact" -> "respond"
      [] at \in {"sum_history", "sum_save", "sum_facts", "sum_actions"} -> "bk_export"

\* fault: _db_lock.acquire() with no release on the way of the exception
StorageRaises_keeping_lock(t) ==
    /\ pc[t] \in LockedOps \ {"init_db", "rs_import"} /\ t \in lock
    /\ pc' = [pc EXCEPT ![t] = on_storage_error(t, pc[t])]
    /\ loc' = [loc EXCEPT ![t] =
                  IF pc[t] \in {"ai_history", "ai_memories", "ai_summaries"}
                  THEN [@ EXCEPT !.ai_response = R_trouble]
                  ELSE IF pc[t] = "bk_export" THEN NoLocals
                  ELSE @]
    /\ UNCHANGED <<messages, memories, summaries, drive, lock, now, requests, log, call, exported>>

\* sqlite3.connect, execute or commit raises inside the block: the with statement
\* releases the lock, nothing is committed, the exception travels to the caller
StorageRaises(t) ==
    /\ pc[t] \in LockedOps \ {"init_db", "rs_import"} /\ t \in lock
    /\ lock' = lock \ {t}
    /\ pc' = [pc EXCEPT ![t] = on_storage_error(t, pc[t])]
    /\ loc' = [loc EXCEPT ![t] =
                  IF pc[t] \in {"ai_history", "ai_memories", "ai_summaries"}
                  THEN [@ EXCEPT !.ai_response = R_trouble]
                  ELSE IF pc[t] = "bk_export" THEN NoLocals
                  ELSE @]
    /\ UNCHANGED <<messages, memories, summaries, drive, now, requests, log, call, exported>>

\* import_memory_from_json raises inside the block (data.get on a list, or
\* sqlite3.connect): caught by restore_memory_from_drive, nothing committed
RestoreImportFails ==
    /\ pc["main"] = "rs_import" /\ "main" \in lock
    /\ lock' = lock \ {"main"}
    /\ pc' = [pc EXCEPT !["main"] = on_storage_error("main", "rs_import")]
    /\ loc' = [loc EXCEPT !["main"] = NoLocals]
    /\ UNCHANGED <<messages, memories, summaries, drive, now, requests, log, call, exported>>

\* the exception left voice_process: Flask answers 500 Internal Server Error
ServerError(h) ==
    /\ pc[h] = "error_500"
    /\ pc' = [pc EXCEPT ![h] = "idle"]
    /\ loc' = [loc EXCEPT ![h] = NoLocals]
    /\ UNCHANGED <<messages, memories, summaries, drive, lock, now, requests, log, call, exported>>

InitFaults ==
    /\ \/ /\ messages = {} /\ memories = {} /\ summaries = {} /\ log = EmptyLog
       \/ /\ messages = PriorMessages /\ memories = PriorMemories
          /\ summaries = PriorSummaries /\ log = PriorLog
    /\ drive \in {<<PriorSnapshot>>, <<JsonArray>>}
    /\ lock = Unlocked
    /\ pc = [t \in Tasks |-> CASE t = "main" -> "init_db"
                               [] t = "backup" -> "unstarted"
                               [] OTHER -> "idle"]
    /\ loc = [t \in Tasks |-> NoLocals]
    /\ now = 1
    /\ requests = 0
    /\ call = NoCall
    /\ exported = NoStore

NextFaults ==
    \/ \E t \in Tasks : Acquire(t)
    \/ InitDb
    \/ RestoreList
    \/ RestoreGet
    \/ RestoreFails
    \/ is_object(loc["main"].memory_data) /\ RestoreImport
    \/ RestoreImportFails
    \/ StartThread
    \/ \E t \in Tasks : StorageRaises(t)
    \/ \E h \in Handlers : ServerError(h)
    \/ \E h \in Handlers : BackupExport(h)
    \/ \E h \in Handlers : BackupList(h)
    \/ \E h \in Handlers : BackupWrite(h)
    \/ \E h \in Handlers : BackupFails(h)
    \/ \E h \in Handlers, phone \in Phones, speech \in Speeches : StartRequest(h, phone, speech)
    \/ \E h \in Handlers : SaveUser(h)
    \/ \E h \in Handlers : AiHistory(h)
    \/ \E h \in Handlers : AiMemories(h)
    \/ \E h \in Handlers : AiSummaries(h)
    \/ \E h \in Handlers : AiCall(h)
    \/ \E h \in Handlers : AiFails(h)
    \/ \E h \in Handlers : SaveAssistant(h)
    \/ \E h \in Handlers : Extract(h)
    \/ \E h \in Handlers : SaveFact(h)
    \/ \E h \in Handlers : Respond(h)
    \/ \E h \in Handlers : SumHistory(h)
    \/ \E h \in Handlers : SumCall(h)
    \/ \E h \in Handlers : SumFails(h)
    \/ \E h \in Handlers : SumSave(h)
    \/ \E h \in Handlers : SumFacts(h)
    \/ \E h \in Handlers : SumActions(h)

SpecFaults == InitFaults /\ [][NextFaults]_vars

---------------------------------------------------------------------------
(* Properties *)

\* the last n elements of a sequence
last_n(s, n) == SubSeq(s, Len(s) - n + 1, Len(s))

\* a call of the function-level specifications has just been made
Called(fn) == requests' = requests + 1 /\ call'.fn = fn

\* C1: for every identity, get_all_history returns exactly the message rows
\* committed for it (by save_message, and by the replay of an import), in the
\* order they were committed: none lost, none repeated, none out of order.
C1_FullHistoryIsAppendOrder ==
    \A p \in Phones : get_all_history(p) = log[p]

\* C1 witness: two identities appended alternately, with an export in between
C1_Witness ==
    /\ call.fn = "save_message"
    /\ \E p, q \in Phones :
           /\ p # q
           /\ Len(log[p]) >= 2 /\ Len(log[q]) >= 1
           /\ \E a, b, c \in messages :
                  /\ a.phone = p /\ b.phone = q /\ c.phone = p
                  /\ a.id < b.id /\ b.id < c.id
    /\ drive # <<>>

\* C2: for every identity and every limit k >= 1, get_conversation_history(phone, k)
\* is the last min(k, count) elements of get_all_history(phone), oldest first;
\* with k >= count it is get_all_history(phone).
C2_RecentIsSuffixOfFull ==
    \A p \in Phones : \A k \in 1..MaxLimit :
        /\ get_conversation_history(p, k)
               = last_n(get_all_history(p), Min(k, get_message_count(p)))
        /\ k >= get_message_count(p) => get_conversation_history(p, k) = get_all_history(p)

\* C2 witness: one identity has more messages than a limit, another has fewer
C2_Witness ==
    \E p, q \in Phones :
        /\ get_message_count(p) > 2
        /\ get_message_count(q) \in 1..2
        /\ Len(get_conversation_history(p, 2)) = 2
        /\ get_conversation_history(p, 2) # get_all_history(p)

\* at most one row of the table for each (phone, fact)
unique_facts(tbl) ==
    \A r, s \in tbl : (r.phone = s.phone /\ r.fact = s.fact) => r = s

\* C3: the memories table never holds two rows with the same (phone, fact); a
\* save_memory call for a pair already stored, whatever its category, leaves the
\* table (the row's category and timestamp included) as it was; a call for a pair
\* not yet stored adds one row, also when the fact text is stored under another phone.
C3_RecordIsIdempotent ==
    [][ /\ unique_facts(memories')
        /\ Called("save_memory") =>
              IF \E r \in memories : r.phone = call'.phone /\ r.fact = call'.fact
              THEN memories' = memories
              ELSE /\ memories \subseteq memories'
                   /\ Cardinality(memories') = Cardinality(memories) + 1
                   /\ \E r \in memories' \ memories :
                          /\ r.phone = call'.phone /\ r.fact = call'.fact
                          /\ r.category = call'.category /\ r.timestamp = now
      ]_vars

\* C3 witness: a duplicate was offered under another category at a later time and
\* ignored, while the same text is stored for a second phone
C3_Witness ==
    /\ call.fn = "save_memory"
    /\ \E r \in memories :
           /\ r.phone = call.phone /\ r.fact = call.fact
           /\ r.category # call.category /\ r.timestamp # now
           /\ \E s \in memories : s.fact = r.fact /\ s.phone # r.phone

\* s is a prefix of t
is_prefix(s, t) == Len(s) <= Len(t) /\ SubSeq(t, 1, Len(s)) = s

\* what get_all_history, get_memories and get_summaries return on given tables
history_of(tbl, p) ==
    LET rows == order_by_id({r \in tbl : r.phone = p})
    IN  [i \in 1..Len(rows) |-> message_dict(rows[i])]

facts_of(tbl, p) ==
    LET rows == order_by_id({r \in tbl : r.phone = p})
    IN  [i \in 1..Len(rows) |->
            [fact |-> rows[i].fact, category |-> rows[i].category,
             timestamp |-> rows[i].timestamp]]

summaries_of(tbl, p) ==
    LET rows == order_by_id({r \in tbl : r.phone = p})
    IN  [i \in 1..Len(rows) |->
            [summary |-> rows[i].summary, message_count |-> rows[i].message_count,
             timestamp |-> rows[i].timestamp]]

\* C4: no step of the running system (a turn, the keyword extraction, the
\* summarizer, a backup, the restore at startup) deletes or changes a stored
\* message, fact or summary row; for every identity the message list, the fact
\* list and the summary list before the step are prefixes of those after it.
C4_MemoryOnlyGrows ==
    [][ /\ messages \subseteq messages'
        /\ memories \subseteq memories'
        /\ summaries \subseteq summaries'
        /\ \A p \in Phones :
               /\ is_prefix(get_all_history(p), history_of(messages', p))
               /\ is_prefix(get_memories(p), facts_of(memories', p))
               /\ is_prefix(get_summaries(p), summaries_of(summaries', p))
      ]_vars

\* C4 witness: rows of an earlier run were restored on top of stored rows, this
\* run added a message, a fact and a summary, and a backup has been written since
C4_Witness ==
    /\ \E r \in messages : r.timestamp = 0
    /\ Cardinality(messages) > 2 * Cardinality(PriorMessages)
    /\ \E r \in messages : r.timestamp >= 1
    /\ \E r \in memories : r.timestamp >= 1
    /\ \E r \in summaries : r.timestamp >= 1
    /\ drive # <<>> /\ drive[1].exported_at >= 1

\* a table without its ids
fact_set(tbl) ==
    {[phone |-> r.phone, fact |-> r.fact, category |-> r.category,
      timestamp |-> r.timestamp] : r \in tbl}

summary_of(r) ==
    [phone |-> r.phone, summary |-> r.summary, message_count |-> r.message_count,
     timestamp |-> r.timestamp]

\* two summary tables hold the same rows the same number of times
same_summary_multiset(a, b) ==
    \A x \in {summary_of(r) : r \in a \cup b} :
        Cardinality({r \in a : summary_of(r) = x}) = Cardinality({r \in b : summary_of(r) = x})

\* the step imports the last exported snapshot into an empty store
ImportIntoEmpty ==
    /\ Called("import")
    /\ messages = {} /\ memories = {} /\ summaries = {}

\* C5 as stated: export then import into an empty store gives an equal fact set,
\* an equal summary multiset and twice the exported number of message rows.
C5_AsStated ==
    [][ ImportIntoEmpty =>
            /\ fact_set(memories') = fact_set(exported.memories)
            /\ same_summary_multiset(summaries', exported.summaries)
            /\ Cardinality(messages') = 2 * Cardinality(exported.messages)
      ]_vars

\* C5 amended: export then import into an empty store gives an equal fact set, an
\* equal summary multiset and the same message rows: as many as were exported,
\* for every identity in the exported order.
C5_ExportImportIntoEmpty ==
    [][ ImportIntoEmpty =>
            /\ fact_set(memories') = fact_set(exported.memories)
            /\ same_summary_multiset(summaries', exported.summaries)
            /\ Cardinality(messages') = Cardinality(exported.messages)
            /\ \A p \in Phones : history_of(messages', p) = history_of(exported.messages, p)
      ]_vars

\* C5 witness: a store with messages, facts and summaries was exported and the
\* snapshot imported into an empty store
C5_Witness ==
    /\ call.fn = "import"
    /\ exported.messages # {} /\ exported.memories # {} /\ exported.summaries # {}
    /\ Cardinality(messages) = Cardinality(exported.messages)
    /\ Cardinality(summaries) = Cardinality(exported.summaries)

RECURSIVE rows_of(_, _)
\* the message rows of a snapshot that belong to one identity, in snapshot order
rows_of(rows, p) ==
    IF rows = <<>> THEN <<>>
    ELSE (IF Head(rows).phone = p THEN <<message_dict(Head(rows))>> ELSE <<>>)
             \o rows_of(Tail(rows), p)

\* every fact row of the snapshot is in the table
holds_facts(tbl, rows) ==
    \A i \in 1..Len(rows) : \E r \in tbl : r.phone = rows[i].phone /\ r.fact = rows[i].fact

\* C6: an import adds one message row for every message row of the snapshot, after
\* the rows already stored (so each message of a snapshot taken from this store is
\* there once more), and one summary row for every summary row of the snapshot;
\* when the store holds the snapshot's facts the memories table is unchanged.
\* Imported n times, the snapshot adds n copies.
C6_ImportAppendsEveryRow ==
    [][ Called("import") =>
            LET data == drive[1]
            IN  /\ messages \subseteq messages'
                /\ Cardinality(messages') = Cardinality(messages) + Len(data.messages)
                /\ \A p \in Phones :
                       history_of(messages', p) = get_all_history(p) \o rows_of(data.messages, p)
                /\ summaries \subseteq summaries'
                /\ Cardinality(summaries') = Cardinality(summaries) + Len(data.summaries)
                /\ \A i \in 1..Len(data.summaries) :
                       Cardinality({r \in summaries' : summary_of(r) = data.summaries[i]})
                         = Cardinality({r \in summaries : summary_of(r) = data.summaries[i]})
                           + Cardinality({j \in 1..Len(data.summaries) :
                                             data.summaries[j] = data.summaries[i]})
                /\ holds_facts(memories, data.memories) => memories' = memories
      ]_vars

\* C6 witness: the store's own snapshot has been imported twice into it
C6_Witness ==
    /\ call.fn = "import"
    /\ drive # <<>> /\ Len(drive[1].messages) > 0 /\ Len(drive[1].summaries) > 0
    /\ Len(drive[1].memories) > 0
    /\ messages = import_messages(import_messages(exported.messages, drive[1].messages),
                                  drive[1].messages)
    /\ Cardinality(messages) = 3 * Len(drive[1].messages)
    /\ Cardinality(summaries) = 3 * Len(drive[1].summaries)
    /\ Cardinality(memories) = Len(drive[1].memories)

\* the categories in the order the scan visits them
CategoryOrder == <<"preference", "personal", "goal", "business", "reminder">>

\* the trigger phrases listed for a category
keywords_of(c) ==
    (CHOOSE e \in {fact_patterns[i] : i \in 1..Len(fact_patterns)} : e.category = c).keywords

\* the utterance, in lower case, contains a trigger phrase of the category
triggers(c, speech) ==
    LET kws == keywords_of(c)
        low == lower(speech)
    IN  \E k \in 1..Len(kws) : contains(kws[k], low)

\* the rows a step adds to the memories table
new_facts == memories' \ memories

\* the identity has the text among its facts
has_fact(tbl, phone, fact) == \E r \in tbl : r.phone = phone /\ r.fact = fact

\* C7: a call of extract_memories_from_message removes nothing and adds at most
\* one fact; a fact it adds is filed under the first category, in the order
\* preference, personal, goal, business, reminder, that has a trigger phrase
\* occurring in the utterance regardless of case, later categories being ignored;
\* a fact is added whenever some category matches and the text is not yet stored;
\* an utterance matching nothing ("It is sunny today") leaves the table unchanged.
C7_AtMostOneFactFirstCategory ==
    [][ Called("extract") =>
            LET speech == call'.speech
                hits   == {i \in 1..Len(CategoryOrder) : triggers(CategoryOrder[i], speech)}
            IN  /\ memories \subseteq memories'
                /\ Cardinality(new_facts) <= 1
                /\ hits = {} => memories' = memories
                /\ speech = U_sunny => memories' = memories
                /\ \A r \in new_facts :
                       /\ hits # {}
                       /\ r.phone = call'.phone
                       /\ r.category = CategoryOrder[SetMin(hits)]
                /\ (hits # {} /\ ~has_fact(memories, call'.phone, strip(speech)))
                       => Cardinality(new_facts) = 1
      ]_vars

\* C7 witness: "Remind me about revenue" matches business and reminder and has
\* been filed under business
C7_Witness ==
    /\ call.fn = "extract" /\ call.speech = U_remind
    /\ triggers("business", U_remind) /\ triggers("reminder", U_remind)
    /\ \E r \in memories :
           /\ r.phone = call.phone /\ r.fact = U_remind
           /\ r.category = "business" /\ r.timestamp = now

\* the step extracts from "My name is Sam and I like tea", not yet stored
ExtractSam ==
    /\ Called("extract")
    /\ call'.speech = U_sam
    /\ ~has_fact(memories, call'.phone, U_sam)

\* C8 as stated: "My name is Sam and I like tea" is filed under personal, not
\* under preference.
C8_AsStated ==
    [][ ExtractSam =>
            \E r \in new_facts : r.category = "personal" /\ r.category # "preference"
      ]_vars

\* C8 amended: "My name is Sam and I like tea" holds a phrase of personal ("my
\* name is") and one of preference ("i like"); it is filed under preference, the
\* first matching category in table order, and not under personal.
C8_SamIsPreference ==
    [][ ExtractSam =>
            /\ triggers("personal", U_sam) /\ triggers("preference", U_sam)
            /\ \E r \in new_facts :
                   /\ r.phone = call'.phone /\ r.fact = U_sam
                   /\ r.category = "preference"
            /\ \A r \in new_facts : r.category # "personal"
      ]_vars

\* C8 witness: the utterance has been extracted and stored
C8_Witness ==
    /\ call.fn = "extract" /\ call.speech = U_sam
    /\ \E r \in memories :
           /\ r.phone = call.phone /\ r.fact = U_sam
           /\ r.category = "preference" /\ r.timestamp = now

\* text is speech without its leading and trailing whitespace, nothing else changed
is_trimmed(text, speech) ==
    \E a \in 1..Len(speech) + 1 : \E b \in 0..Len(speech) :
        /\ text = SubSeq(speech, a, b)
        /\ \A i \in 1..Len(speech) : (i < a \/ i > b) => speech[i] \in Whitespace
        /\ text # <<>> => (text[1] \notin Whitespace /\ text[Len(text)] \notin Whitespace)

\* the step extracts from "I love hiking on weekends", not yet stored
ExtractHiking ==
    /\ Called("extract")
    /\ call'.speech = U_hiking
    /\ ~has_fact(memories, call'.phone, U_hiking)

\* C9 as stated: the text of a fact the extractor stores equals the utterance
\* character for character, leading and trailing whitespace included.
C9_AsStated ==
    [][ Called("extract") => \A r \in new_facts : r.fact = call'.speech ]_vars

\* C9 amended: the text of a fact the extractor stores is the utterance with its
\* leading and trailing whitespace removed and every other character, letter case
\* included, unchanged; for "I love hiking on weekends" exactly one fact is
\* stored, under preference, with text equal to the input.
C9_StoredTextIsTrimmedUtterance ==
    [][ /\ Called("extract") => \A r \in new_facts : is_trimmed(r.fact, call'.speech)
        /\ ExtractHiking =>
               /\ Cardinality(new_facts) = 1
               /\ \A r \in new_facts :
                      /\ r.phone = call'.phone /\ r.fact = U_hiking
                      /\ r.category = "preference"
      ]_vars

\* C9 witness: a padded, mixed-case utterance has been stored without its padding
C9_Witness ==
    /\ call.fn = "extract" /\ call.speech = U_padded
    /\ U_padded[1] \in Whitespace
    /\ \E r \in memories :
           /\ r.phone = call.phone /\ r.timestamp = now
           /\ r.fact # U_padded /\ is_trimmed(r.fact, U_padded)
           /\ \E i \in 1..Len(r.fact) : \E k \in 1..Len(UpperCase) : r.fact[i] = UpperCase[k]

\* voice_process returns in this step
Returns(h) == pc[h] # "idle" /\ pc'[h] = "idle"

\* C10 as stated: every request whose utterance was saved to the messages table
\* has had extract_memories_from_message called on it when voice_process returns.
C10_AsStated ==
    [][ \A h \in Handlers : (Returns(h) /\ loc[h].user_saved) => loc[h].extracted ]_vars

\* C10 amended: every request whose utterance was saved and is not a goodbye has
\* had extract_memories_from_message called on it when voice_process returns,
\* also when the response generation failed; on a goodbye utterance
\* voice_process returns without calling it.
C10_ExtractorRunsUnlessGoodbye ==
    [][ \A h \in Handlers :
            (Returns(h) /\ loc[h].user_saved) =>
                (loc[h].extracted <=> ~is_goodbye(loc[h].speech))
      ]_vars

\* C10 witness: a turn whose response generation failed is about to return, its
\* utterance saved and scanned
C10_Witness ==
    \E h \in Handlers :
        /\ pc[h] = "respond"
        /\ loc[h].user_saved /\ loc[h].extracted
        /\ loc[h].ai_response \in {R_fallback, R_trouble}
        /\ \E r \in messages : /\ r.phone = loc[h].phone /\ r.role = "user"
                               /\ r.content = loc[h].speech /\ r.timestamp >= 1

\* the statements of summarize_and_extract
SumStates == {"sum_history", "sum_call", "sum_save", "sum_facts", "sum_actions"}

\* summarize_and_extract returns to voice_process in this step
RunEnds(h) == pc[h] \in SumStates /\ pc'[h] = "bk_export"

\* task t leaves a "with _db_lock:" block in this step
Commits(t) == t \in lock /\ t \notin lock'

\* C11: summarize_and_extract invokes the model only with at least 4 messages
\* read for the phone, and a step of it changes a table only after the model call
\* and json.loads succeeded on at least 4 messages; a run on fewer than 4
\* messages, or one whose model call or parse failed, ends with no summary and no
\* fact written and hands control back to voice_process, which goes on to the backup.
C11_SummarizerWritesOnlyOnSuccess ==
    [][ \A h \in Handlers :
            /\ loc'[h].invoked => loc'[h].n >= 4
            /\ (pc[h] \in SumStates /\ Commits(h)
                  /\ <<messages, memories, summaries>> # <<messages', memories', summaries'>>)
                   => (loc[h].n >= 4 /\ loc[h].invoked /\ loc[h].result # NoResult)
            /\ (RunEnds(h) /\ (loc'[h].n < 4 \/ loc'[h].result = NoResult))
                   => /\ loc'[h].summaries_written = {} /\ loc'[h].facts_written = {}
                      /\ loc'[h].fact_calls = 0
                      /\ <<messages, memories, summaries>> = <<messages', memories', summaries'>>
      ]_vars

\* C11 witness: on 4 or more messages the model call (or the parse) has failed
\* and the handler stands at the backup with nothing written
C11_Witness ==
    \E h \in Handlers :
        /\ pc[h] = "bk_export" /\ loc[h].user_saved
        /\ loc[h].invoked /\ loc[h].result = NoResult
        /\ Len(get_all_history(loc[h].phone)) >= 4
        /\ loc[h].summaries_written = {} /\ loc[h].facts_written = {}

\* the run ending in this step had its model call and parse succeed
SuccessfulRunEnds(h) == RunEnds(h) /\ loc'[h].n >= 4 /\ loc'[h].result # NoResult

\* C12 as stated: every successful run writes exactly one summary row, whatever
\* the parsed summary text, with message_count the number of messages read.
C12_AsStated ==
    [][ \A h \in Handlers :
            SuccessfulRunEnds(h) =>
                /\ Cardinality(loc'[h].summaries_written) = 1
                /\ \A r \in loc'[h].summaries_written : r.message_count = loc'[h].n
      ]_vars

\* C12 amended: a successful run whose parsed summary text is not empty writes
\* exactly one summary row, for the phone, with that text and with message_count
\* the number of messages read for the run; a successful run whose summary text
\* is empty writes none; so a conversation end adds at most one summary.
C12_OneSummaryWhenTextNotEmpty ==
    [][ \A h \in Handlers :
            /\ SuccessfulRunEnds(h) =>
                   /\ loc'[h].result.summary # <<>> =>
                          /\ Cardinality(loc'[h].summaries_written) = 1
                          /\ \A r \in loc'[h].summaries_written :
                                 /\ r \in summaries'
                                 /\ r.phone = loc'[h].phone
                                 /\ r.summary = loc'[h].result.summary
                                 /\ r.message_count = loc'[h].n
                   /\ loc'[h].result.summary = <<>> => loc'[h].summaries_written = {}
            /\ RunEnds(h) => Cardinality(loc'[h].summaries_written) <= 1
      ]_vars

\* C12 witness: a successful run has written its one summary, and more messages
\* than the run of the earlier process counted
C12_Witness ==
    \E h \in Handlers :
        /\ pc[h] = "bk_export" /\ loc[h].result # NoResult
        /\ loc[h].result.summary # <<>>
        /\ \E r \in loc[h].summaries_written :
               r \in summaries /\ r.message_count = loc[h].n /\ r.message_count > 5

\* the texts a parsed result asks to be stored
result_texts(result) ==
    {result.facts[i] : i \in 1..Len(result.facts)}
        \cup {concat(ACTION_PREFIX, result.action_items[j]) : j \in 1..Len(result.action_items)}

\* C13 as stated: a successful run adds as many fact rows as the facts and
\* action_items lists have entries.
C13_AsStated ==
    [][ \A h \in Handlers :
            SuccessfulRunEnds(h) =>
                Cardinality(loc'[h].facts_written)
                    = Len(loc'[h].result.facts) + Len(loc'[h].result.action_items)
      ]_vars

\* C13 amended: a successful run calls save_memory once per entry of facts, with
\* category "extracted" and the entry as text, and once per entry of
\* action_items, with category "action_item" and "ACTION: " + entry as text;
\* afterwards every such text is stored for the phone; a row is added only for a
\* text the phone did not have yet, so the rows added are at most the entries.
C13_OneRecordCallPerEntry ==
    [][ \A h \in Handlers :
            SuccessfulRunEnds(h) =>
                LET result == loc'[h].result
                    phone  == loc'[h].phone
                    added  == loc'[h].facts_written
                IN  /\ loc'[h].fact_calls = Len(result.facts) + Len(result.action_items)
                    /\ \A x \in result_texts(result) : has_fact(memories', phone, x)
                    /\ added \subseteq memories'
                    /\ \A r \in added :
                           /\ r.phone = phone
                           /\ \/ /\ r.category = "extracted"
                                 /\ \E i \in 1..Len(result.facts) : r.fact = result.facts[i]
                              \/ /\ r.category = "action_item"
                                 /\ \E j \in 1..Len(result.action_items) :
                                        r.fact = concat(ACTION_PREFIX, result.action_items[j])
                    /\ \A r, s \in added : r.fact = s.fact => r = s
                    /\ Cardinality(added) =
                           Cardinality({x \in result_texts(result) :
                                           ~has_fact(memories' \ added, phone, x)})
                    /\ Cardinality(added) <= Len(result.facts) + Len(result.action_items)
      ]_vars

\* C13 witness: of three entries one was stored already, two were new to the
\* phone: one fact and one action item
C13_Witness ==
    \E h \in Handlers :
        /\ pc[h] = "bk_export" /\ loc[h].result # NoResult
        /\ loc[h].fact_calls = 3
        /\ Cardinality(loc[h].facts_written) = 2
        /\ \E r \in loc[h].facts_written : r.category = "extracted" /\ r.fact = A_call
        /\ \E r \in loc[h].facts_written :
               r.category = "action_item" /\ r.fact = concat(ACTION_PREFIX, A_call)

\* C14: in every reachable state every stored summary has a message_count not
\* above the number of messages now stored for its phone, also when two
\* conversations of one phone end at the same time, after a restore that replayed
\* a backup, and around the backups of the conversation ends.
C14_SummaryCountIsSnapshot ==
    \A s \in summaries : s.message_count <= get_message_count(s.phone)

\* C14 witness: two conversation ends of one phone ran together on a restored
\* store and each wrote its summary, one of them with a count already out of date
C14_Witness ==
    /\ loc["h1"].phone = loc["h2"].phone
    /\ loc["h1"].summaries_written # {} /\ loc["h2"].summaries_written # {}
    /\ \E s \in loc["h1"].summaries_written \cup loc["h2"].summaries_written :
           s \in summaries /\ s.message_count < get_message_count(s.phone)
    /\ Cardinality(summaries) = Cardinality(RestoredSummaries) + 2

\* C15: whatever backups have run, one after another or overlapping (the timer
\* thread, the conversation ends, the manual trigger), Drive holds at most one
\* file named DRIVE_MEMORY_FILE.
C15_AtMostOneBackupFile ==
    Len(drive) <= 1

\* the statements of restore_memory_from_drive
RestoreStates == {"rs_list", "rs_get", "rs_import"}

\* C16: restore_memory_from_drive runs once, right after init_db: the main thread
\* enters it from init_db and never again; while it runs the backup thread is not
\* started and no request has been accepted; the thread is started and requests
\* are accepted only once it is over; afterwards no step replays a snapshot (a
\* step adds at most one message row and one summary row).
C16_RestoreOnceBeforeServing ==
    [][ /\ (pc["main"] = "init_db" /\ pc'["main"] # "init_db") => pc'["main"] = "rs_list"
        /\ (pc["main"] # "init_db" /\ pc'["main"] = "rs_list") => pc["main"] = "rs_list"
        /\ pc["main"] \in {"start_thread", "serving"} => pc'["main"] \notin RestoreStates
        /\ pc'["main"] \in RestoreStates \cup {"init_db"} =>
               /\ pc'["backup"] = "unstarted"
               /\ requests' = 0
               /\ \A h \in Handlers : pc'[h] = "idle"
        /\ (pc'["backup"] # "unstarted" /\ pc["backup"] = "unstarted") =>
               pc["main"] = "start_thread"
        /\ requests' > 0 => pc'["main"] = "serving"
        /\ pc["main"] \in {"start_thread", "serving"} =>
               /\ Cardinality(messages') <= Cardinality(messages) + 1
               /\ Cardinality(summaries') <= Cardinality(summaries) + 1
      ]_vars

\* C16 witness: the backup found at startup was replayed on the stored rows, and
\* a request has since been served and a timer backup written
C16_Witness ==
    /\ pc["main"] = "serving" /\ pc["backup"] = "sleep" /\ requests > 0
    /\ Cardinality({r \in messages : r.timestamp = 0}) = 2 * Cardinality(PriorMessages)
    /\ \E r \in messages : r.timestamp >= 1
    /\ drive # <<>> /\ drive[1].exported_at >= 1

\* C17: when restore_memory_from_drive finds no backup file (or its Drive call
\* raises) the three tables are left as they were, empty on a first start, and
\* startup goes on to start the backup thread.
C17_RestoreWithoutBackupFile ==
    [][ /\ (pc["main"] = "rs_list" /\ pc'["main"] # "rs_list" /\ drive = <<>>) =>
               /\ pc'["main"] = "start_thread"
               /\ <<messages', memories', summaries'>> = <<messages, memories, summaries>>
               /\ \A p \in Phones : history_of(messages', p) = get_all_history(p)
        /\ (pc'["main"] = "start_thread" /\ drive' = <<>>) =>
               \/ messages' = {} /\ memories' = {} /\ summaries' = {}
               \/ /\ messages' = PriorMessages /\ memories' = PriorMemories
                  /\ summaries' = PriorSummaries
      ]_vars

\* C17 witness: a first start, nothing stored and nothing on Drive, the restore over
C17_Witness ==
    /\ pc["main"] = "start_thread" /\ pc["backup"] = "unstarted"
    /\ drive = <<>>
    /\ messages = {} /\ memories = {} /\ summaries = {}

\* the statements of backup_memory_to_drive
BackupStates == {"bk_export", "bk_list", "bk_write"}

\* C18: a failed backup of the timer thread is swallowed: the thread goes back
\* to sleep, never ends, and starts an attempt only from its sleep, not straight
\* after the failure; every time it sleeps, after a failure too, a further
\* attempt follows, so attempts are made again and again for the life of the
\* process (each Drive call returning or raising).
C18_TimerSurvivesFailure ==
    /\ [][ /\ pc["backup"] \in BackupStates => pc'["backup"] \in BackupStates \cup {"sleep"}
           /\ pc["backup"] = "sleep" => pc'["backup"] \in {"sleep", "bk_export"}
           /\ (pc'["backup"] = "bk_export" /\ pc["backup"] # "bk_export") =>
                  pc["backup"] = "sleep"
           /\ (loc'["backup"].failed /\ ~loc["backup"].failed) => pc'["backup"] = "sleep"
         ]_vars
    /\ (pc["backup"] = "sleep" /\ loc["backup"].failed) ~> (pc["backup"] = "bk_export")
    /\ []<>(pc["backup"] = "bk_export")

\* C18 witness: the last backup of the timer thread failed and the next one has begun
C18_Witness ==
    /\ pc["backup"] = "bk_export"
    /\ loc["backup"].failed

\* the snapshot holds the summary row (the snapshot carries no ids)
in_snapshot_summaries(data, r) ==
    \E i \in 1..Len(data.summaries) :
        data.summaries[i] = [phone |-> r.phone, summary |-> r.summary,
                             message_count |-> r.message_count, timestamp |-> r.timestamp]

\* the snapshot holds the fact row
in_snapshot_memories(data, r) ==
    \E i \in 1..Len(data.memories) :
        data.memories[i] = [phone |-> r.phone, fact |-> r.fact,
                            category |-> r.category, timestamp |-> r.timestamp]

\* C19: on a goodbye utterance voice_process runs summarize_and_extract right
\* after saving the utterance, then backup_memory_to_drive, once, before it
\* returns: every way out of the summarizer (rows written, nothing to do, or a
\* failure) leads to the backup, the backup is entered from nowhere else in the
\* request and is not entered again, and the snapshot the backup exports holds
\* every summary and fact row the summarizer run of this request wrote.
C19_SummarizeThenBackupOnce ==
    [][ \A h \in Handlers :
            /\ (pc[h] = "save_user" /\ pc'[h] # "save_user" /\ is_goodbye(loc[h].speech)) =>
                   pc'[h] = "sum_history"
            /\ pc[h] \in SumStates => pc'[h] \in SumStates \cup {"bk_export"}
            /\ (pc'[h] = "bk_export" /\ pc[h] # "bk_export") =>
                   \/ pc[h] \in SumStates
                   \/ pc[h] = "idle" /\ ~loc[h].user_saved
            /\ pc[h] = "bk_export" => pc'[h] \in {"bk_export", "bk_list", "idle"}
            /\ pc[h] = "bk_list" => pc'[h] \in {"bk_list", "bk_write", "idle"}
            /\ pc[h] = "bk_write" => pc'[h] \in {"bk_write", "idle"}
            /\ (Returns(h) /\ loc[h].user_saved /\ is_goodbye(loc[h].speech)) =>
                   pc[h] \in BackupStates
            /\ (pc[h] = "bk_export" /\ pc'[h] = "bk_list") =>
                   /\ \A r \in loc[h].summaries_written :
                          in_snapshot_summaries(loc'[h].memory_data, r)
                   /\ \A r \in loc[h].facts_written :
                          in_snapshot_memories(loc'[h].memory_data, r)
      ]_vars

\* C19 witness: a goodbye request whose summarizer run wrote a summary and a fact
\* has exported its snapshot
C19_Witness ==
    \E h \in Handlers :
        /\ pc[h] = "bk_list"
        /\ is_goodbye(loc[h].speech)
        /\ loc[h].summaries_written # {}
        /\ loc[h].facts_written # {}

\* C20: at most one task is inside a "with _db_lock:" block in every state; a
\* step that changes the messages, memories or summaries table is the commit
\* of the one task inside the block; while a task stays inside, no table
\* changes; and a task inside the block that moves on leaves the block with it,
\* so the reads and writes of one store operation are not interleaved with
\* another's.
C20_StorageAccessSerialized ==
    /\ Cardinality(lock) <= 1
    /\ [][ /\ Cardinality(lock') <= 1
           /\ <<messages, memories, summaries>> # <<messages', memories', summaries'>> =>
                  \E t \in Tasks : lock = {t} /\ Commits(t)
           /\ \A t \in Tasks :
                  /\ (t \in lock /\ t \in lock') =>
                         /\ <<messages, memories, summaries>> = <<messages', memories', summaries'>>
                         /\ pc'[t] = pc[t]
                  /\ (t \in lock /\ pc'[t] # pc[t]) => (lock = {t} /\ lock' = Unlocked)
                  /\ (t \notin lock /\ t \in lock') => (lock = Unlocked /\ pc[t] \in LockedOps)
         ]_vars

\* C20 witness: one request is inside the block, about to write, while the
\* other waits to enter it for a write of its own
C20_Witness ==
    \E t, u \in Callers :
        /\ t # u
        /\ lock = {t}
        /\ pc[t] = "save_user"
        /\ pc[u] \in {"save_user", "save_assistant", "sum_save"}

\* the statements that wait for Gemini or for Google Drive
ExternalCalls == {"rs_list", "rs_get", "bk_list", "bk_write", "sum_call", "ai_call"}

\* C21: a task inside a "with _db_lock:" block is executing a storage function,
\* and a task waiting for the model (summarizer, reply) or for Drive (list,
\* download, update, create) is outside the block; so while a task waits in an
\* external call, any other task about to do a storage operation can enter the
\* block as soon as no task executing a storage function is inside.
C21_NoLockDuringExternalCall ==
    /\ \A t \in lock : pc[t] \in LockedOps
    /\ \A t \in Tasks :
           pc[t] \in ExternalCalls =>
              /\ t \notin lock
              /\ \A u \in Tasks \ {t} :
                     (pc[u] \in LockedOps /\ lock = Unlocked) => ENABLED Acquire(u)

\* C21 witness: the request waits for the summarizer's model call while the
\* backup thread is inside the block, exporting
C21_Witness ==
    \E h \in Handlers :
        /\ pc[h] = "sum_call"
        /\ pc["backup"] = "bk_export"
        /\ lock = {"backup"}

\* C22: a sqlite failure during a turn of voice_process (saving the user
\* message, the reads of get_ai_response, saving the assistant message, the
\* fact insert) ends in a normal reply: voice_process never returns by way of
\* an exception that Flask turns into a 500 answer.
C22_TurnAlwaysAnswered ==
    [][ \A h \in Handlers : Returns(h) => pc[h] # "error_500" ]_vars

\* the statements of a turn of voice_process up to the extractor's keyword scan
BeforeFactInsert ==
    {"save_user", "ai_history", "ai_memories", "ai_summaries", "ai_call", "save_assistant",
     "extract"}

\* the newest message row of the phone is of this role and content
last_message_is(phone, role, content) ==
    \E r \in messages :
        /\ r.phone = phone /\ r.role = role /\ r.content = content
        /\ \A y \in messages : y.phone = phone => y.id <= r.id

C24_RemoteNeverRegresses ==
    [][ (drive # <<>> /\ drive' # <<>>) =>
            Len(drive'[1].messages) >= Len(drive[1].messages) ]_vars

\* the rows of a list that an earlier run of the process stored (timestamp 0)
earlier_rows(rows) == {rows[i] : i \in {j \in 1..Len(rows) : rows[j].timestamp = 0}}

\* every row of the list is in the other list
kept_in(rows, other) == \A r \in rows : \E i \in 1..Len(other) : other[i] = r

\* C25: the message, fact and summary rows of earlier runs that the backup file
\* holds, those it held when the process started, are still in the file after
\* every write of backup_memory_to_drive, also when the restore at startup
\* failed.
C25_RemoteRowsNeverLost ==
    [][ drive # <<>> =>
            /\ drive' # <<>>
            /\ kept_in(earlier_rows(drive[1].messages), drive'[1].messages)
            /\ kept_in(earlier_rows(drive[1].memories), drive'[1].memories)
            /\ kept_in(earlier_rows(drive[1].summaries), drive'[1].summaries)
      ]_vars

\* C26: a task is inside a "with _db_lock:" block only while it executes the
\* statement of the block: when its storage function returns or raises (a
\* failing insert, query or import) the lock is free again, and a task enters
\* the block only when no task, itself included, is inside; so a held lock can
\* always be released by its holder and a free lock can be taken by any task
\* waiting for it: the tasks are never all blocked.
C26_LockNeverLeftHeld ==
    /\ [](\A t \in lock : pc[t] \in LockedOps)
    /\ [](\A t \in lock :
              ENABLED (StorageRaises(t) \/ RestoreImportFails \/ InitDb))
    /\ []((lock = Unlocked) => \A t \in Tasks : pc[t] \in LockedOps => ENABLED Acquire(t))
    /\ [][ \A t \in Tasks :
               /\ (t \in lock /\ pc'[t] # pc[t]) => lock' = Unlocked
               /\ (t \in lock' /\ t \notin lock) => lock = Unlocked
         ]_vars

\* C26 witness: a storage statement of the request raised, the exception is on
\* its way out of voice_process, and the lock is free
C26_Witness ==
    \E h \in Handlers :
        /\ pc[h] = "error_500"
        /\ lock = Unlocked
=============================================================================
